---- MODULE Spec2Model ----
(***************************************************************************)
(* Model of the chat handler of UnifyDataApp's python services:            *)
(*   chat_handler.py   main (the retry orchestrator) and the layer filter  *)
(*   sql_generator.py  SQLGenerator (generation call, response parser)     *)
(*   db_executor.py    DatabaseExecutor (connect, validate, execute)       *)
(*                                                                         *)
(* Text is a sequence of characters/tokens (strings), so that strip,       *)
(* upper/lower, startswith/endswith and concatenation are computed.        *)
(* Python's None and a missing dictionary key are the reserved one-token   *)
(* texts NoneVal and Absent.                                               *)
(***************************************************************************)
EXTENDS Integers, Sequences, FiniteSets, TLC

VARIABLES
    input_data,            \* the request read from stdin (never changes)
    pc,                    \* "start", "loop", "execute", "done"
    user_query,            \* main: user_query (rewritten in chart-edit mode)
    data_dictionary,       \* main: data_dictionary (after the filters)
    conversation_history,  \* sql_gen.conversation_history
    previous_error,        \* main: previous_error
    current_attempt,       \* main: current_attempt
    sql_query,             \* main: sql_query
    explanation,           \* main: explanation
    chart_type,            \* main: chart_type ("Unbound" before the first result)
    execution_result,      \* main: execution_result
    error_message,         \* main: error_message
    stdout,                \* the payloads printed, in order
    exit_code,             \* Running, 0 (normal return) or 1 (sys.exit(1))
    layer_filter_calls,    \* calls of filter_data_dictionary_by_layer
    gen_calls,             \* calls of sql_gen.generate_sql made so far
    last_call,             \* arguments of the latest generate_sql call
    last_failure,          \* attempt and message of the latest failed attempt
    parsed_calls,          \* generate_sql calls that returned a parsed result
    exec_calls,            \* calls of db_executor.execute_query made so far
    exec_failures,         \* execute_query calls that reported a failure
    db_ops,                \* database operations of the current loop pass, in order
    connection_log,        \* connection operations of the whole request, in order
    last_executed          \* the statement handed to cursor.execute in this pass

vars == << input_data, pc, user_query, data_dictionary, conversation_history,
           previous_error, current_attempt, sql_query, explanation, chart_type,
           execution_result, error_message, stdout, exit_code,
           layer_filter_calls, gen_calls, last_call, last_failure,
           parsed_calls, exec_calls, exec_failures, db_ops, connection_log,
           last_executed >>

-----------------------------------------------------------------------------
(* Program constants *)

max_attempts == 3
max_retries == 3
max_rows == 1000

(* Bounds of the model *)

MaxAbove == 2
MaxDict == 2
MaxResultRows == 1

-----------------------------------------------------------------------------
(* Values *)

\* the exit status of a process that has not exited yet (no status of Python)
Running == -1

NoneVal == << "<None>" >>
Absent == << "<Absent>" >>
NonString == << "<Number>" >>

\* Python truthiness of a text-or-None value
Truthy(v) == v # NoneVal /\ v # Absent /\ v # << >>

\* dict.get(key, default)
Get(v, default) == IF v = Absent THEN default ELSE v

IsWs(c) == c \in {" ", "\n"}

RECURSIVE LStrip(_)
LStrip(s) == IF s # << >> /\ IsWs(Head(s)) THEN LStrip(Tail(s)) ELSE s

RECURSIVE RStrip(_)
RStrip(s) ==
    IF s # << >> /\ IsWs(s[Len(s)]) THEN RStrip(SubSeq(s, 1, Len(s) - 1)) ELSE s

\* str.strip()
Strip(s) == RStrip(LStrip(s))

\* str.upper() of one token
UpperTok(c) ==
    CASE c = "select" -> "SELECT"
      [] c = "with" -> "WITH"
      [] c = "limit" -> "LIMIT"
      [] c = "credit_limit" -> "CREDIT_LIMIT"
      [] c = "without" -> "WITHOUT"
      [] c = "update" -> "UPDATE"
      [] c = "a" -> "A"
      [] c = "b" -> "B"
      [] c = "g" -> "G"
      [] OTHER -> c

\* str.lower() of one token
LowerTok(c) ==
    CASE c = "A" -> "a"
      [] c = "B" -> "b"
      [] c = "G" -> "g"
      [] c = "SELECT" -> "select"
      [] c = "WITH" -> "with"
      [] c = "LIMIT" -> "limit"
      [] OTHER -> c

Upper(s) == [i \in 1..Len(s) |-> UpperTok(s[i])]
Lower(s) == [i \in 1..Len(s) |-> LowerTok(s[i])]

\* the keywords an upper-cased token contains as a substring
KeywordsIn(c) ==
    CASE c = "SELECT" -> {"SELECT"}
      [] c = "WITH" -> {"WITH"}
      [] c = "WITHOUT" -> {"WITH"}
      [] c = "LIMIT" -> {"LIMIT"}
      [] c = "CREDIT_LIMIT" -> {"LIMIT"}
      [] OTHER -> {}

\* kw in s   (s already upper-cased)
Contains(s, kw) == \E i \in 1..Len(s) : kw \in KeywordsIn(s[i])

\* s.startswith(kw)   (s already upper-cased; kw a whole token)
StartsWith(s, kw) == s # << >> /\ s[1] = kw

\* s.endswith(suffix)
EndsWith(s, suffix) ==
    /\ Len(s) >= Len(suffix)
    /\ SubSeq(s, Len(s) - Len(suffix) + 1, Len(s)) = suffix

RECURSIVE Join(_, _)
\* sep.join(parts)
Join(parts, sep) ==
    IF parts = << >> THEN << >>
    ELSE IF Len(parts) = 1 THEN parts[1]
    ELSE parts[1] \o sep \o Join(Tail(parts), sep)

Range(s) == {s[i] : i \in 1..Len(s)}

RECURSIVE SeqsUpTo(_, _)
\* all sequences over S of length at most n
SeqsUpTo(S, n) ==
    IF n = 0 THEN {<< >>}
    ELSE LET shorter == SeqsUpTo(S, n - 1)
         IN  shorter \cup {Append(s, x) : s \in shorter, x \in S}

RECURSIVE Split(_, _)
\* s.split(sep)   (sep a single character)
Split(s, sep) ==
    IF \A i \in 1..Len(s) : s[i] # sep THEN << s >>
    ELSE LET k == CHOOSE i \in 1..Len(s) :
                      s[i] = sep /\ \A j \in 1..(i - 1) : s[j] # sep
         IN  << SubSeq(s, 1, k - 1) >> \o Split(SubSeq(s, k + 1, Len(s)), sep)

-----------------------------------------------------------------------------
(* sql_generator.py *)

\* a dictionary entry that is a JSON object
IsEntry(e) == DOMAIN e = {"schemaName", "tableName", "attributeName"}

\* an element of the dictionary that is no JSON object (entry.get raises)
BadEntry == [bad |-> TRUE]

\* f"{schema_name}.{table_name}"
TableKey(schema_name, table_name) == schema_name \o << "." >> \o table_name

RECURSIVE TablesFrom(_, _, _)
TablesFrom(dict, i, seen) ==
    IF i > Len(dict) THEN << >>
    ELSE LET schema_name == Get(dict[i].schemaName, << "public" >>)
             table_name == Get(dict[i].tableName, << "unknown" >>)
             key == TableKey(schema_name, table_name)
         IN  IF key \in seen THEN TablesFrom(dict, i + 1, seen)
             ELSE << [schema |-> schema_name, table |-> table_name,
                      full_name |-> key] >>
                  \o TablesFrom(dict, i + 1, seen \cup {key})

\* SQLGenerator.get_tables_from_schema
get_tables_from_schema(dict) == TablesFrom(dict, 1, {})

ChartTypes == {<< "pie" >>, << "bar" >>, << "line" >>, << "histogram" >>, << "table" >>}

\* a variant of lines 305-306 that keeps the value the oracle sent
NormalizeChartType_Keep(chart) == chart

\* _parse_response, lines 305-306: an unrecognized chart type becomes table
NormalizeChartType(chart) ==
    IF chart = NoneVal \/ chart \notin ChartTypes THEN << "table" >> ELSE chart

\* the token of an oracle text that stands for one well-formed JSON document
JsonDoc == "{json}"

\* the tokens of an oracle text that are a markdown fence, with and without tag
FenceJson == "[fence]json"
Fence == "[fence]"

\* _parse_response, lines 283-290: strip, drop the fences, strip
CleanFence(text) ==
    LET c0 == Strip(text)
        c1 == IF c0 # << >> /\ c0[1] = FenceJson THEN Tail(c0) ELSE c0
        c2 == IF c1 # << >> /\ c1[1] \in {Fence, FenceJson} THEN Tail(c1) ELSE c1
        c3 == IF c2 # << >> /\ c2[Len(c2)] = Fence
              THEN SubSeq(c2, 1, Len(c2) - 1) ELSE c2
    IN  Strip(c3)

\* json.loads(cleaned) succeeds
JsonLoads(cleaned) == cleaned = << JsonDoc >>

RECURSIVE CaptureSql_NoStop(_, _, _)
\* a variant of lines 316-322 that does not stop at a line ending in ';'
CaptureSql_NoStop(lines, i, in_sql) ==
    IF i > Len(lines) THEN << >>
    ELSE LET line == lines[i]
             now_in == in_sql \/ Contains(Upper(line), "SELECT")
                              \/ Contains(Upper(line), "WITH")
         IN  IF ~now_in THEN CaptureSql_NoStop(lines, i + 1, FALSE)
             ELSE << line >> \o CaptureSql_NoStop(lines, i + 1, TRUE)

RECURSIVE CaptureSql(_, _, _)
\* _parse_response, lines 316-322: the captured lines
CaptureSql(lines, i, in_sql) ==
    IF i > Len(lines) THEN << >>
    ELSE LET line == lines[i]
             now_in == in_sql \/ Contains(Upper(line), "SELECT")
                              \/ Contains(Upper(line), "WITH")
         IN  IF ~now_in THEN CaptureSql(lines, i + 1, FALSE)
             ELSE IF EndsWith(Strip(line), << ";" >>) THEN << line >>
             ELSE << line >> \o CaptureSql(lines, i + 1, TRUE)

\* SQLGenerator._parse_response: r is the response of the oracle, r.text its text
\* and r.body the JSON value its JSON document (if any) denotes
parse_response(r) ==
    IF JsonLoads(CleanFence(r.text))
    THEN IF r.body.type # "object"
         THEN [ok |-> FALSE, error |-> << "'list' object has no attribute 'get'" >>]
         ELSE LET sql == Get(r.body.sql, NoneVal)
                  expl == Get(r.body.explanation, << "No explanation provided" >>)
                  chart == Get(r.body.chart_type, << "table" >>)
              IN  IF sql = NonString
                  THEN [ok |-> FALSE,
                        error |-> << "'int' object has no attribute 'strip'" >>]
                  ELSE [ok |-> TRUE,
                        sql |-> IF sql # NoneVal THEN Strip(sql) ELSE << >>,
                        explanation |-> expl,
                        chart_type |-> NormalizeChartType(chart)]
    ELSE LET lines == Split(Strip(r.text), "\n")
             sql_lines == CaptureSql(lines, 1, FALSE)
         IN  IF sql_lines # << >>
             THEN [ok |-> TRUE, sql |-> Join(sql_lines, << "\n" >>),
                   explanation |-> << "Extracted from response" >>,
                   chart_type |-> << "table" >>]
             ELSE [ok |-> FALSE,
                   error |-> << "Could not parse SQL from response: " >> \o r.text]

\* a variant of lines 72-84 that records the answer without the question
NewTurns_AssistantOnly(uq, sql, expl) ==
    << IF sql # << >> THEN [role |-> "assistant", content |-> expl, sql |-> sql]
       ELSE [role |-> "assistant", content |-> expl] >>

\* the turns generate_sql appends, lines 72-84
NewTurns(uq, sql, expl) ==
    << [role |-> "user", content |-> uq],
       IF sql # << >> THEN [role |-> "assistant", content |-> expl, sql |-> sql]
       ELSE [role |-> "assistant", content |-> expl] >>

\* SQLGenerator.generate_sql with the oracle answering r (r.raises: the call to
\* the oracle raised r.text). The result: raised/error, or the returned triple,
\* with the history after the call and the prompt shape that was sent.
generate_sql(history, uq, dict, prev_error, attempt, r) ==
    LET prompt == IF Truthy(prev_error) THEN "retry" ELSE "initial"
        fail(msg, sent) == [raised |-> TRUE, error |-> msg, history |-> history,
                            prompt |-> sent]
    IN  IF attempt > max_retries
        THEN fail(<< "Maximum retry attempts (3) exceeded" >>, "none")
        ELSE IF \E i \in 1..Len(dict) : ~IsEntry(dict[i])
        THEN fail(<< "'str' object has no attribute 'get'" >>, "none")
        ELSE IF r.raises
        THEN fail(<< "Error generating SQL: " >> \o r.text, prompt)
        ELSE LET p == parse_response(r)
             IN  IF ~p.ok THEN fail(<< "Error generating SQL: " >> \o p.error, prompt)
                 ELSE [raised |-> FALSE, sql |-> p.sql, explanation |-> p.explanation,
                       chart_type |-> p.chart_type,
                       history |-> history \o NewTurns(uq, p.sql, p.explanation),
                       prompt |-> prompt]

-----------------------------------------------------------------------------
(* db_executor.py *)

\* a connection descriptor that is a JSON object
IsConfig(c) == DOMAIN c = {"dbType"}

\* a db_config that is no JSON object (db_config.get raises)
BadConfig == [bad |-> TRUE]

\* DatabaseExecutor.__init__, line 29
db_type_of(config) == Lower(Get(config.dbType, << "postgresql" >>))

\* DatabaseExecutor.connect: the database kinds it knows
SupportedDbTypes == {<< "postgresql" >>, << "mysql" >>}

RECURSIVE BeforeDetail(_)
\* error_msg.split('DETAIL:')[0]
BeforeDetail(msg) ==
    IF msg = << >> \/ Head(msg) = "DETAIL:" THEN << >>
    ELSE << Head(msg) >> \o BeforeDetail(Tail(msg))

\* lines 91-92 and 183-184: keep what precedes DETAIL:
TruncateDetail(msg) ==
    IF "DETAIL:" \in Range(msg) THEN Strip(BeforeDetail(msg)) ELSE msg

RECURSIVE RStripSemicolon(_)
\* sql.rstrip(';')
RStripSemicolon(s) ==
    IF s # << >> /\ s[Len(s)] = ";" THEN RStripSemicolon(SubSeq(s, 1, Len(s) - 1))
    ELSE s

\* f"{max_rows}": the number as it is formatted into the statement
CapText(cap) == IF cap = 1000 THEN "1000" ELSE "<other number>"

\* execute_query, lines 147-150: the statement handed to cursor.execute
LimitedSql(sql, cap) ==
    LET sql_upper == Upper(Strip(sql))
    IN  IF StartsWith(sql_upper, "SELECT") /\ ~Contains(sql_upper, "LIMIT")
        THEN RStripSemicolon(sql) \o << " ", "LIMIT", CapText(cap) >>
        ELSE sql

\* a variant of the failure result that reports one row
FailedResult_OneRow(msg) ==
    [success |-> FALSE, error |-> msg, data |-> << >>, columns |-> << >>,
     row_count |-> 1]

FailedResult(msg) ==
    [success |-> FALSE, error |-> msg, data |-> << >>, columns |-> << >>,
     row_count |-> 0]

\* lines 156-163: the rows as dictionaries keyed by column name
RowDicts(columns, rows) ==
    [i \in 1..Len(rows) |-> [c \in Range(columns) |->
        rows[i][CHOOSE k \in 1..Len(columns) :
                    columns[k] = c /\ \A j \in (k + 1)..Len(columns) : columns[j] # c]]]

\* DatabaseExecutor.execute_query on an open connection, the database
\* answering o: the result, the operations on the connection in order, and
\* the statement executed
execute_query(sql, validate_first, cap, o) ==
    IF validate_first /\ o.validate = "error"
    THEN [result |-> FailedResult(<< "SQL validation failed: " >>
                                  \o TruncateDetail(o.diag)),
          ops |-> << "validate" >>, executed |-> NoneVal]
    ELSE LET pre == IF validate_first THEN << "validate" >> ELSE << >>
             stmt == LimitedSql(sql, cap)
         IN  CASE o.execute = "error" ->
                    [result |-> FailedResult(TruncateDetail(o.diag)),
                     ops |-> pre \o << "execute", "rollback" >>, executed |-> stmt]
               [] o.execute = "rows" ->
                    [result |-> [success |-> TRUE,
                                 data |-> RowDicts(o.columns, o.rows),
                                 columns |-> o.columns,
                                 row_count |-> Len(o.rows),
                                 error |-> NoneVal],
                     ops |-> pre \o << "execute" >>, executed |-> stmt]
               [] o.execute = "norows" ->
                    [result |-> [success |-> TRUE, data |-> << >>,
                                 columns |-> << >>, row_count |-> o.rowcount,
                                 error |-> NoneVal],
                     ops |-> pre \o << "execute", "commit" >>, executed |-> stmt]

\* a variant of the with block whose exit leaves the connection open
WithConnection_NoClose(ops) == << "connect" >> \o ops

\* with DatabaseExecutor(db_config): __enter__ connects, the body runs, __exit__
\* closes, also when the body raises or returns
WithConnection(ops) == << "connect" >> \o ops \o << "close" >>

\* the values json.dumps can write; the driver also returns dates and decimals
JsonNative == {"int", "text", "null"}

\* json.dumps(result) returns (does not raise TypeError)
Serializable(data) ==
    \A i \in 1..Len(data) : \A c \in DOMAIN data[i] : data[i][c] \in JsonNative

-----------------------------------------------------------------------------
(* chat_handler.py *)

\* an entry matches the layer suffix, lines 37-38
LayerMatches(entry, layer_suffix) ==
    \/ EndsWith(Lower(Get(entry.schemaName, << >>)), layer_suffix)
    \/ EndsWith(Lower(Get(entry.tableName, << >>)), layer_suffix)

\* a variant of the filter that keeps the first entry next to the matching ones
filter_data_dictionary_by_layer_KeepFirst(dict, layer) ==
    IF ~Truthy(layer) \/ dict = << >> THEN [raised |-> FALSE, value |-> dict]
    ELSE IF \E i \in 1..Len(dict) : ~IsEntry(dict[i])
    THEN [raised |-> TRUE, value |-> dict]
    ELSE LET layer_suffix == << "_" >> \o Lower(layer)
             Matches(e) == LayerMatches(e, layer_suffix)
             layer_matching == SelectSeq(dict, Matches)
         IN  [raised |-> FALSE,
              value |-> IF layer_matching # << >>
                        THEN << dict[1] >> \o layer_matching ELSE dict]

\* a variant of the filter without the fall-back to the whole dictionary
filter_data_dictionary_by_layer_NoFallback(dict, layer) ==
    IF ~Truthy(layer) \/ dict = << >> THEN [raised |-> FALSE, value |-> dict]
    ELSE IF \E i \in 1..Len(dict) : ~IsEntry(dict[i])
    THEN [raised |-> TRUE, value |-> dict]
    ELSE LET layer_suffix == << "_" >> \o Lower(layer)
             Matches(e) == LayerMatches(e, layer_suffix)
             layer_matching == SelectSeq(dict, Matches)
         IN  [raised |-> FALSE, value |-> layer_matching]

\* filter_data_dictionary_by_layer; on a dictionary with an element that is no
\* object the comprehension raises (raised TRUE)
filter_data_dictionary_by_layer(dict, layer) ==
    IF ~Truthy(layer) \/ dict = << >> THEN [raised |-> FALSE, value |-> dict]
    ELSE IF \E i \in 1..Len(dict) : ~IsEntry(dict[i])
    THEN [raised |-> TRUE, value |-> dict]
    ELSE LET layer_suffix == << "_" >> \o Lower(layer)
             Matches(e) == LayerMatches(e, layer_suffix)
             layer_matching == SelectSeq(dict, Matches)
         IN  [raised |-> FALSE,
              value |-> IF layer_matching # << >> THEN layer_matching ELSE dict]

\* the table_override field: absent, one string, a list of strings, or a
\* value of another type (a number)
IsOverrideString(t) == DOMAIN t = {"string"}
IsOverrideList(t) == DOMAIN t = {"list"}
NoOverride == [absent |-> TRUE]
BadOverride == [number |-> TRUE]
OverrideTruthy(t) ==
    \/ IsOverrideString(t) /\ t.string # << >>
    \/ IsOverrideList(t) /\ t.list # << >>
    \/ t = BadOverride

RECURSIVE OverrideEntries(_, _, _)
\* lines 107-115: the entries selected by the table specs, spec by spec
OverrideEntries(dict, specs, i) ==
    IF i > Len(specs) THEN << >>
    ELSE LET schema_table == Split(specs[i], ".")
             Selected(e) == /\ Get(e.schemaName, NoneVal) = schema_table[1]
                            /\ Get(e.tableName, NoneVal) = schema_table[2]
         IN  (IF Len(schema_table) = 2 THEN SelectSeq(dict, Selected)
              ELSE << >>)
             \o OverrideEntries(dict, specs, i + 1)

\* lines 101-116; iterating a number raises, and so does entry.get on an
\* element that is no object
apply_table_override(dict, t) ==
    IF ~OverrideTruthy(t) THEN [raised |-> FALSE, value |-> dict]
    ELSE IF t = BadOverride THEN [raised |-> TRUE, value |-> dict]
    ELSE LET specs == IF IsOverrideString(t) THEN << t.string >> ELSE t.list
         IN  IF /\ \E i \in 1..Len(dict) : ~IsEntry(dict[i])
                /\ \E k \in 1..Len(specs) : Len(Split(specs[k], ".")) = 2
             THEN [raised |-> TRUE, value |-> dict]
             ELSE [raised |-> FALSE, value |-> OverrideEntries(dict, specs, 1)]

\* a variant of lines 75-86 that leaves the prior SQL out of the rewritten query
ChartEditQuery_NoSql(chart_context, query) ==
    << "I want to edit this existing chart: Chart Title: " >>
    \o Get(chart_context.title, << "Untitled" >>)
    \o << " Chart Type: " >> \o Get(chart_context.chartType, << "Unknown" >>)
    \o << " User's edit request: " >> \o query
    \o << " Please modify the SQL query based on the user's request." >>

\* lines 75-86: the user query in chart-edit mode
ChartEditQuery(chart_context, query) ==
    << "I want to edit this existing chart: Chart Title: " >>
    \o Get(chart_context.title, << "Untitled" >>)
    \o << " Chart Type: " >> \o Get(chart_context.chartType, << "Unknown" >>)
    \o << " Current SQL Query: " >> \o Get(chart_context.sql, << "No SQL available" >>)
    \o << " User's edit request: " >> \o query
    \o << " Please modify the SQL query based on the user's request." >>

NoChartContext == [absent |-> TRUE]

(* The payloads main prints *)

MetadataPayload(expl, attempt, history) ==
    [success |-> TRUE, sql |-> NoneVal, explanation |-> expl, data |-> << >>,
     columns |-> << >>, row_count |-> 0, attempt |-> attempt,
     conversation_history |-> history, metadata_only |-> TRUE,
     chart_type |-> NoneVal]

SuccessPayload(sql, expl, result, attempt, history, chart) ==
    [success |-> TRUE, sql |-> sql, explanation |-> expl, data |-> result.data,
     columns |-> result.columns, row_count |-> result.row_count,
     attempt |-> attempt, conversation_history |-> history, chart_type |-> chart]

\* a variant of the exhausted payload that reports the incremented counter
ExhaustedPayload_Incremented(err, sql, expl, attempt, tables, chart) ==
    [success |-> FALSE, error |-> err, sql |-> sql, explanation |-> expl,
     attempt |-> attempt + 1, max_attempts_reached |-> TRUE,
     available_tables |-> tables,
     message |-> << "Unable to generate valid SQL after 3 attempts. Please select the correct table." >>,
     chart_type |-> chart]

ExhaustedPayload(err, sql, expl, attempt, tables, chart) ==
    [success |-> FALSE, error |-> err, sql |-> sql, explanation |-> expl,
     attempt |-> attempt, max_attempts_reached |-> TRUE,
     available_tables |-> tables,
     message |-> << "Unable to generate valid SQL after 3 attempts. Please select the correct table." >>,
     chart_type |-> chart]

ExceptPayload(err, sql, attempt) ==
    [success |-> FALSE, error |-> err, sql |-> sql, attempt |-> attempt,
     max_attempts_reached |-> TRUE]

UnknownPayload(attempt) ==
    [success |-> FALSE, error |-> << "Unknown error occurred" >>, attempt |-> attempt]

FatalPayload(err) ==
    [success |-> FALSE, error |-> << "Chat handler error: " >> \o err]

NoResult == [none |-> TRUE]
NoCall == [none |-> TRUE]
NoFailure == [none |-> TRUE]
Unbound == << "<Unbound>" >>

\* main, lines 59-124 (and the first evaluation of the loop condition when
\* the attempt is no number): what the request is turned into, or the error
\* that reaches the top-level handler
read_request(req) ==
    LET query == IF req.chart_context # NoChartContext
                 THEN ChartEditQuery(req.chart_context, req.user_query)
                 ELSE req.user_query
        history == IF req.conversation_history # Absent
                      /\ req.conversation_history # << >>
                   THEN req.conversation_history ELSE << >>
        by_layer == IF ~OverrideTruthy(req.table_override)
                    THEN filter_data_dictionary_by_layer(req.data_dictionary, req.layer)
                    ELSE [raised |-> FALSE, value |-> req.data_dictionary]
        by_override == apply_table_override(by_layer.value, req.table_override)
        calls == IF ~OverrideTruthy(req.table_override) THEN 1 ELSE 0
        fatal(msg, n) == [fatal |-> TRUE, error |-> msg, filter_calls |-> n]
    IN  IF req.user_query = Absent THEN fatal(<< "'user_query'" >>, 0)
        ELSE IF by_layer.raised
        THEN fatal(<< "'str' object has no attribute 'get'" >>, calls)
        ELSE IF by_override.raised
        THEN fatal(IF req.table_override = BadOverride
                   THEN << "'int' object is not iterable" >>
                   ELSE << "'str' object has no attribute 'get'" >>, calls)
        ELSE IF req.attempt.kind = "string"
        THEN fatal(<< "'<=' not supported between instances of 'str' and 'int'" >>,
                   calls)
        ELSE [fatal |-> FALSE,
              user_query |-> query,
              history |-> history,
              dict |-> by_override.value,
              attempt |-> IF req.attempt.kind = "absent" THEN 1 ELSE req.attempt.value,
              previous_error |-> Get(req.previous_error, NoneVal),
              filter_calls |-> calls]

-----------------------------------------------------------------------------
(* The environment: requests, oracle responses, database outcomes *)

Entries ==
    { [schemaName |-> << "a", "_", "G" >>, tableName |-> << "c" >>,
       attributeName |-> << "x" >>],
      [schemaName |-> << "a" >>, tableName |-> << "b", ".", "c" >>,
       attributeName |-> << "x" >>],
      [schemaName |-> << "a", ".", "b" >>, tableName |-> << "c" >>,
       attributeName |-> << "x" >>] }

\* two columns of two tables whose dotted names coincide
TwoTables ==
    << [schemaName |-> << "a" >>, tableName |-> << "b", ".", "c" >>,
        attributeName |-> << "x" >>],
       [schemaName |-> << "a", ".", "b" >>, tableName |-> << "c" >>,
        attributeName |-> << "x" >>] >>

Dictionaries == SeqsUpTo(Entries, MaxDict) \cup {TwoTables, << BadEntry >>}

GoodConfig == [dbType |-> << "postgresql" >>]

PriorHistory ==
    << [role |-> "user", content |-> << "earlier" >>],
       [role |-> "assistant", content |-> << "answer" >>] >>

Overrides ==
    { NoOverride, BadOverride,
      [string |-> << "a", "_", "G", ".", "c" >>],
      [list |-> << << "a", "_", "G", ".", "c" >>, << "a", ".", "b", ".", "c" >> >>],
      [list |-> << << "a", "_", "G", ".", "c" >>, << "a", "_", "G", ".", "c" >> >>] }

ChartContexts ==
    { NoChartContext,
      [title |-> << "Sales" >>, chartType |-> << "bar" >>,
       sql |-> << "SELECT", " ", "a" >>] }

Attempts ==
    {[kind |-> "absent"], [kind |-> "string"]}
    \cup {[kind |-> "number", value |-> n] :
              n \in 0..(max_attempts + MaxAbove)}

AllRequests ==
    [ user_query : {<< "q" >>, Absent},
      data_dictionary : Dictionaries,
      db_config : {GoodConfig, BadConfig},
      conversation_history : {Absent, PriorHistory},
      previous_error : {Absent, << "earlier error" >>},
      attempt : Attempts,
      table_override : Overrides,
      layer : {<< >>, << "G" >>},
      chart_context : ChartContexts ]

\* a request that leaves the dictionary filters and the chart-edit mode alone
PlainRequest(req) ==
    /\ req.table_override = NoOverride
    /\ req.layer = << >>
    /\ req.chart_context = NoChartContext
    /\ req.user_query # Absent
    /\ req.data_dictionary \in {TwoTables, << BadEntry >>}

\* a request that starts at the last attempt
LastAttemptRequest(req) ==
    /\ req.attempt = [kind |-> "number", value |-> max_attempts]
    /\ req.db_config = GoodConfig
    /\ req.conversation_history = Absent
    /\ req.previous_error = Absent

\* a chart-edit request with a retry left
ChartRetryRequest(req) ==
    /\ req.chart_context # NoChartContext
    /\ req.attempt = [kind |-> "number", value |-> max_attempts - 1]
    /\ req.user_query # Absent
    /\ req.data_dictionary = TwoTables
    /\ req.table_override = NoOverride
    /\ req.layer = << >>
    /\ req.db_config = GoodConfig
    /\ req.conversation_history = Absent
    /\ req.previous_error = Absent

\* the requests explored: the retry inputs vary over plain requests, the
\* filter inputs over requests that start at the last attempt
Requests ==
    {req \in AllRequests :
        PlainRequest(req) \/ LastAttemptRequest(req) \/ ChartRetryRequest(req)}

JsonObjects ==
    { [type |-> "object", sql |-> NoneVal, explanation |-> << "it is in the schema" >>,
       chart_type |-> NoneVal],
      [type |-> "object", sql |-> << " " >>, explanation |-> << "nothing to run" >>,
       chart_type |-> Absent],
      [type |-> "object", sql |-> << " ", "SELECT", " ", "a", ";" >>,
       explanation |-> << "x" >>, chart_type |-> << "bar" >>] }

\* further JSON answers: the statement and chart type shapes
MoreJsonObjects ==
    { [type |-> "object", sql |-> << "SELECT", " ", "1" >>,
       explanation |-> << "x" >>, chart_type |-> << "bar" >>],
      [type |-> "object", sql |-> << "SELECT", " ", "credit_limit" >>,
       explanation |-> << >>, chart_type |-> << "donut" >>],
      [type |-> "object", sql |-> << "select", " ", "a", " ", "limit", " ", "5" >>,
       explanation |-> << "x" >>, chart_type |-> NoneVal],
      [type |-> "object", sql |-> << "update", " ", "a" >>,
       explanation |-> << "x" >>, chart_type |-> << "table" >>] }

\* further plain-text answers: a statement line between prose lines, and a
\* statement of two lines without a semicolon
MoreTexts ==
    { << "Sure:", "\n", "SELECT", " ", "*", " ", "FROM", " ", "t", ";", "\n", "Done" >>,
      << "ok", "\n", "with", " ", "x", "\n", "select", " ", "a" >> }

\* what the oracle can answer: an error, fenced or bare JSON, or plain text
OracleResponses ==
    {[raises |-> TRUE, text |-> << "503 unavailable" >>]}
    \cup {[raises |-> FALSE, text |-> << FenceJson, "\n", JsonDoc, "\n", Fence >>,
           body |-> b] : b \in JsonObjects}
    \cup {[raises |-> FALSE, text |-> t, body |-> NoResult] :
              t \in { << "Here", " ", "it", " ", "is", "\n", "select", " ", "a", ";",
                         "\n", "Done" >>,
                      << "I", " ", "cannot", " ", "answer" >> }}

FencedJson(b) ==
    [raises |-> FALSE, text |-> << FenceJson, "\n", JsonDoc, "\n", Fence >>, body |-> b]

\* the answers explored for a request: every statement shape for a request
\* that starts at the last attempt, the retry-driving answers for the others
OracleAnswers(req) ==
    IF LastAttemptRequest(req)
    THEN OracleResponses
         \cup {FencedJson(b) : b \in MoreJsonObjects}
         \cup {[raises |-> FALSE, text |-> t, body |-> NoResult] : t \in MoreTexts}
    ELSE OracleResponses

Diagnostics == { << "column a does not exist", " ", "DETAIL:", " ", "more" >> }

Values == {"int", "date"}

ResultSets ==
    {[columns |-> << "c1" >>, rows |-> rs] :
         rs \in SeqsUpTo({<< v >> : v \in Values}, MaxResultRows)}

\* what the database can answer to validate and execute
DbOutcomes ==
    {[validate |-> "error", execute |-> "none", diag |-> d] : d \in Diagnostics}
    \cup {[validate |-> "ok", execute |-> "error", diag |-> d] : d \in Diagnostics}
    \cup {[validate |-> "ok", execute |-> "rows", columns |-> rs.columns,
           rows |-> rs.rows] : rs \in ResultSets}
    \cup {[validate |-> "ok", execute |-> "norows", rowcount |-> n] : n \in {0, 1}}

\* the statement produces rows (cursor.description is set)
RowProducing(sql) ==
    LET up == Upper(Strip(sql)) IN StartsWith(up, "SELECT") \/ StartsWith(up, "WITH")

-----------------------------------------------------------------------------
(* The state machine of main *)

Init ==
    /\ input_data \in Requests
    /\ pc = "start"
    /\ user_query = Absent
    /\ data_dictionary = << >>
    /\ conversation_history = << >>
    /\ previous_error = NoneVal
    /\ current_attempt = 1
    /\ sql_query = NoneVal
    /\ explanation = NoneVal
    /\ chart_type = Unbound
    /\ execution_result = NoResult
    /\ error_message = NoneVal
    /\ stdout = << >>
    /\ exit_code = Running
    /\ layer_filter_calls = 0
    /\ gen_calls = 0
    /\ last_call = NoCall
    /\ last_failure = NoFailure
    /\ parsed_calls = 0
    /\ exec_calls = 0
    /\ exec_failures = 0
    /\ db_ops = << >>
    /\ connection_log = << >>
    /\ last_executed = NoneVal

\* print(json.dumps(result)); return
Return(payload) ==
    /\ stdout' = Append(stdout, payload)
    /\ exit_code' = 0
    /\ pc' = "done"

\* a variant of the top-level handler without sys.exit(1)
Fatal_NoExit(msg) ==
    /\ stdout' = Append(stdout, FatalPayload(msg))
    /\ exit_code' = 0
    /\ pc' = "done"

\* lines 228-235: the top-level handler
Fatal(msg) ==
    /\ stdout' = Append(stdout, FatalPayload(msg))
    /\ exit_code' = 1
    /\ pc' = "done"

\* a variant of the handler of the loop body that gives up without printing
Except_NoPrint(msg) ==
    /\ error_message' = msg
    /\ current_attempt' = current_attempt + 1
    /\ last_failure' = [attempt |-> current_attempt, message |-> msg,
                        handler |-> "except"]
    /\ IF current_attempt + 1 > max_attempts
       THEN /\ pc' = "done"
            /\ exit_code' = 0
            /\ UNCHANGED << stdout, previous_error >>
       ELSE /\ previous_error' = msg
            /\ pc' = "loop"
            /\ UNCHANGED << stdout, exit_code >>

\* a variant of the handler of the loop body that counts a failure twice
Except_CountsTwice(msg) ==
    /\ error_message' = msg
    /\ current_attempt' = current_attempt + 2
    /\ last_failure' = [attempt |-> current_attempt, message |-> msg,
                        handler |-> "except"]
    /\ IF current_attempt + 2 > max_attempts
       THEN /\ Return(ExceptPayload(msg, sql_query, current_attempt))
            /\ UNCHANGED previous_error
       ELSE /\ previous_error' = msg
            /\ pc' = "loop"
            /\ UNCHANGED << stdout, exit_code >>

\* lines 203-218: the handler of the loop body
Except(msg) ==
    /\ error_message' = msg
    /\ current_attempt' = current_attempt + 1
    /\ last_failure' = [attempt |-> current_attempt, message |-> msg,
                        handler |-> "except"]
    /\ IF current_attempt + 1 > max_attempts
       THEN /\ Return(ExceptPayload(msg, sql_query, current_attempt + 1 - 1))
            /\ UNCHANGED previous_error
       ELSE /\ previous_error' = msg
            /\ pc' = "loop"
            /\ UNCHANGED << stdout, exit_code >>

\* lines 59-124, the request is malformed: the top-level handler reports it
ReadRequestFatal ==
    /\ pc = "start"
    /\ LET rd == read_request(input_data)
       IN  /\ rd.fatal
           /\ Fatal(rd.error)
           /\ layer_filter_calls' = rd.filter_calls
    /\ UNCHANGED << input_data, user_query, data_dictionary, conversation_history,
                    previous_error, current_attempt, sql_query, explanation,
                    chart_type, execution_result, error_message, gen_calls,
                    last_call, last_failure, parsed_calls, exec_calls, exec_failures, db_ops,
                    connection_log, last_executed >>

\* lines 59-124: read the request, rewrite the query, filter the dictionary
ReadRequest ==
    /\ pc = "start"
    /\ LET rd == read_request(input_data)
       IN  /\ ~rd.fatal
           /\ user_query' = rd.user_query
           /\ conversation_history' = rd.history
           /\ data_dictionary' = rd.dict
           /\ previous_error' = rd.previous_error
           /\ current_attempt' = rd.attempt
           /\ layer_filter_calls' = rd.filter_calls
    /\ pc' = "loop"
    /\ UNCHANGED << input_data, sql_query, explanation, chart_type,
                    execution_result, error_message, stdout, exit_code, gen_calls,
                    last_call, last_failure, parsed_calls, exec_calls, exec_failures, db_ops,
                    connection_log, last_executed >>

\* lines 126 and 220-226: the loop condition is false
FallThrough ==
    /\ pc = "loop"
    /\ ~(current_attempt <= max_attempts)
    /\ Return(UnknownPayload(current_attempt))
    /\ UNCHANGED << input_data, user_query, data_dictionary, conversation_history,
                    previous_error, current_attempt, sql_query, explanation,
                    chart_type, execution_result, error_message,
                    layer_filter_calls, gen_calls, last_call, last_failure,
                    parsed_calls, exec_calls, exec_failures, db_ops,
                    connection_log, last_executed >>

\* lines 129-136: evaluating db_config.get raises before generate_sql is called
GenerateArgsRaise ==
    /\ pc = "loop"
    /\ current_attempt <= max_attempts
    /\ ~IsConfig(input_data.db_config)
    /\ Except(<< "'str' object has no attribute 'get'" >>)
    /\ db_ops' = << >>
    /\ last_executed' = NoneVal
    /\ UNCHANGED << input_data, user_query, data_dictionary, conversation_history,
                    sql_query, explanation, chart_type, execution_result,
                    layer_filter_calls, gen_calls, last_call, parsed_calls,
                    exec_calls, exec_failures, connection_log >>

\* a variant of line 139 that tests for None alone
IsMetadataOnly_NoneOnly(sql) == sql = NoneVal

\* line 139: the result is a direct answer, nothing is to be executed
IsMetadataOnly(sql) == sql = NoneVal \/ Strip(sql) = << >>

\* the generate_sql call of this loop pass, the oracle answering r
GenerateCall(r) ==
    generate_sql(conversation_history, user_query, data_dictionary,
                 IF current_attempt > 1 THEN previous_error ELSE NoneVal,
                 current_attempt, r)

\* what every generate_sql call of main records
Called ==
    /\ pc = "loop"
    /\ current_attempt <= max_attempts
    /\ IsConfig(input_data.db_config)
    /\ gen_calls' = gen_calls + 1
    /\ db_ops' = << >>
    /\ last_executed' = NoneVal
    /\ UNCHANGED << input_data, user_query, data_dictionary, execution_result,
                    layer_filter_calls, exec_calls, exec_failures, connection_log >>

CallRecord(g, r) ==
    [attempt |-> current_attempt,
     response |-> r,
     previous_error |-> IF current_attempt > 1 THEN previous_error ELSE NoneVal,
     user_query |-> user_query,
     prompt |-> g.prompt]

\* lines 129-136 and 203-218: generate_sql raises
GenerateRaises ==
    \E r \in OracleAnswers(input_data) :
        LET g == GenerateCall(r)
        IN  /\ Called
            /\ g.raised
            /\ last_call' = CallRecord(g, r)
            /\ Except(g.error)
            /\ UNCHANGED << conversation_history, sql_query, explanation,
                            chart_type, parsed_calls >>

\* lines 129-154: generate_sql returns no SQL, the metadata-only answer
GenerateMetadata ==
    \E r \in OracleAnswers(input_data) :
        LET g == GenerateCall(r)
        IN  /\ Called
            /\ ~g.raised
            /\ IsMetadataOnly(g.sql)
            /\ last_call' = CallRecord(g, r)
            /\ conversation_history' = g.history
            /\ sql_query' = g.sql
            /\ explanation' = g.explanation
            /\ chart_type' = g.chart_type
            /\ parsed_calls' = parsed_calls + 1
            /\ Return(MetadataPayload(g.explanation, current_attempt, g.history))
            /\ UNCHANGED << previous_error, current_attempt, error_message,
                            last_failure >>

\* lines 129-139: generate_sql returns SQL
GenerateSql ==
    \E r \in OracleAnswers(input_data) :
        LET g == GenerateCall(r)
        IN  /\ Called
            /\ ~g.raised
            /\ ~IsMetadataOnly(g.sql)
            /\ last_call' = CallRecord(g, r)
            /\ conversation_history' = g.history
            /\ sql_query' = g.sql
            /\ explanation' = g.explanation
            /\ chart_type' = g.chart_type
            /\ parsed_calls' = parsed_calls + 1
            /\ pc' = "execute"
            /\ UNCHANGED << previous_error, current_attempt, error_message,
                            last_failure, stdout, exit_code >>

\* what every pass through the with block leaves alone
Executing ==
    /\ pc = "execute"
    /\ UNCHANGED << input_data, user_query, data_dictionary, conversation_history,
                    sql_query, explanation, chart_type, layer_filter_calls,
                    gen_calls, last_call, parsed_calls >>

\* line 157: __enter__ calls connect, which raises
ConnectFails ==
    /\ Executing
    /\ db_ops' = << "connect" >>
    /\ connection_log' = Append(connection_log, "connect failed")
    /\ UNCHANGED last_executed
    /\ Except(<< "Failed to connect to database: " >>
              \o (IF db_type_of(input_data.db_config) \in SupportedDbTypes
                  THEN << "connection refused" >>
                  ELSE << "Unsupported database type: " >>
                       \o db_type_of(input_data.db_config)))
    /\ UNCHANGED << execution_result, exec_calls, exec_failures >>

\* a variant of the call that asks for no validation
ExecuteCall_Unvalidated(o) == execute_query(sql_query, FALSE, max_rows, o)

\* the execute_query call of this loop pass, the database answering o
ExecuteCall(o) == execute_query(sql_query, TRUE, max_rows, o)

Answers(o) ==
    /\ db_type_of(input_data.db_config) \in SupportedDbTypes
    /\ o.execute = "rows" => RowProducing(sql_query)
    /\ o.execute = "norows" => ~RowProducing(sql_query)

\* lines 157-201, execute_query reports a failure: retry or give up
ExecuteFails ==
    \E o \in DbOutcomes :
        LET x == ExecuteCall(o)
        IN  /\ Executing
            /\ Answers(o)
            /\ ~x.result.success
            /\ execution_result' = x.result
            /\ exec_calls' = exec_calls + 1
            /\ exec_failures' = exec_failures + 1
            /\ db_ops' = WithConnection(x.ops)
            /\ connection_log' = connection_log \o WithConnection(x.ops)
            /\ last_executed' = x.executed
            /\ error_message' = x.result.error
            /\ previous_error' = x.result.error
            /\ current_attempt' = current_attempt + 1
            /\ last_failure' = [attempt |-> current_attempt,
                                message |-> x.result.error, handler |-> "else"]
            /\ IF current_attempt + 1 > max_attempts
               THEN Return(ExhaustedPayload(x.result.error, sql_query, explanation,
                                            current_attempt + 1 - 1,
                                            get_tables_from_schema(data_dictionary),
                                            chart_type))
               ELSE pc' = "loop" /\ UNCHANGED << stdout, exit_code >>

\* lines 157-179, execute_query reports success and the result is printed
ExecuteSucceeds ==
    \E o \in DbOutcomes :
        LET x == ExecuteCall(o)
        IN  /\ Executing
            /\ Answers(o)
            /\ x.result.success
            /\ Serializable(x.result.data)
            /\ execution_result' = x.result
            /\ exec_calls' = exec_calls + 1
            /\ UNCHANGED exec_failures
            /\ db_ops' = WithConnection(x.ops)
            /\ connection_log' = connection_log \o WithConnection(x.ops)
            /\ last_executed' = x.executed
            /\ Return(SuccessPayload(sql_query, explanation, x.result,
                                     current_attempt, conversation_history,
                                     chart_type))
            /\ UNCHANGED << previous_error, current_attempt, error_message,
                            last_failure >>

\* lines 157-179 and 203-218, execute_query reports success but json.dumps
\* raises on a value of the result: the handler of the loop body takes over
SerializeFails ==
    \E o \in DbOutcomes :
        LET x == ExecuteCall(o)
        IN  /\ Executing
            /\ Answers(o)
            /\ x.result.success
            /\ ~Serializable(x.result.data)
            /\ execution_result' = x.result
            /\ exec_calls' = exec_calls + 1
            /\ UNCHANGED exec_failures
            /\ db_ops' = WithConnection(x.ops)
            /\ connection_log' = connection_log \o WithConnection(x.ops)
            /\ last_executed' = x.executed
            /\ Except(<< "Object of type date is not JSON serializable" >>)

Next ==
    \/ ReadRequestFatal
    \/ ReadRequest
    \/ FallThrough
    \/ GenerateArgsRaise
    \/ GenerateRaises
    \/ GenerateMetadata
    \/ GenerateSql
    \/ ConnectFails
    \/ ExecuteFails
    \/ ExecuteSucceeds
    \/ SerializeFails

Spec == Init /\ [][Next]_vars

\* the request is one sequential thread: a step that can be taken is taken
FairSpec == Spec /\ WF_vars(Next)

-----------------------------------------------------------------------------
(* The terminal states of the orchestrator, read off the payload printed *)

\* the starting attempt number of the request (line 68)
StartAttempt ==
    IF input_data.attempt.kind = "number" THEN input_data.attempt.value ELSE 1

Printed == stdout[Len(stdout)]

Keys(payload) == DOMAIN payload

ExhaustedKeys ==
    {"success", "error", "sql", "explanation", "attempt", "max_attempts_reached",
     "available_tables", "message", "chart_type"}

Done == pc = "done" /\ stdout # << >>

Succeeded ==
    Done /\ Printed.success /\ "metadata_only" \notin Keys(Printed)

SucceededMetadata ==
    Done /\ Printed.success /\ "metadata_only" \in Keys(Printed)

Exhausted ==
    Done /\ ~Printed.success /\ "max_attempts_reached" \in Keys(Printed)

FatalEnd ==
    Done /\ ~Printed.success /\ Keys(Printed) = {"success", "error"}

\* the request has a missing or wrongly-shaped field
Malformed(req) ==
    \/ req.user_query = Absent
    \/ \E i \in 1..Len(req.data_dictionary) : ~IsEntry(req.data_dictionary[i])
    \/ req.table_override = BadOverride
    \/ ~IsConfig(req.db_config)
    \/ req.attempt.kind = "string"

-----------------------------------------------------------------------------
(* Claims *)

\* C1: in the retry loop, for every starting attempt number, current_attempt
\* never falls below the starting attempt and never exceeds max_attempts + 1
\* in a state before the loop has terminated.
C1_AttemptWithinBudget ==
    pc \in {"loop", "execute"} =>
        /\ current_attempt >= StartAttempt
        /\ current_attempt <= max_attempts + 1

\* C2: whenever a generation call returns empty, null or whitespace-only SQL,
\* at any attempt, the request has ended with the metadata-only success
\* payload and that loop pass opened no connection and ran no validate or
\* execute.
C2_EmptySqlIsTerminalMetadata ==
    (parsed_calls > 0 /\ (sql_query = NoneVal \/ Strip(sql_query) = << >>)) =>
        /\ pc = "done"
        /\ Len(stdout) = 1
        /\ stdout[1].success = TRUE
        /\ stdout[1].sql = NoneVal
        /\ stdout[1].data = << >>
        /\ stdout[1].row_count = 0
        /\ stdout[1].metadata_only = TRUE
        /\ stdout[1].chart_type = NoneVal
        /\ stdout[1].attempt = last_call.attempt
        /\ db_ops = << >>

\* C2 witness: a metadata-only answer at the third attempt, after two
\* attempts whose SQL failed in the database
C2_Witness ==
    /\ SucceededMetadata
    /\ Printed.attempt = max_attempts
    /\ exec_failures = 2
    /\ sql_query = << >>

\* the pairs (schemaName, tableName) of a dictionary
Pairs(dict) == {<< dict[i].schemaName, dict[i].tableName >> : i \in 1..Len(dict)}

\* the list names the pair exactly once
ListedOnce(tables, pair) ==
    Cardinality({i \in 1..Len(tables) :
                     tables[i].schema = pair[1] /\ tables[i].table = pair[2]}) = 1

\* C3: a request that starts at attempt 1 and whose SQL fails in
\* validate-then-execute three times in a row ends exhausted after exactly
\* three attempts, with the error and SQL of the third attempt and with every
\* distinct (schemaName, tableName) pair of the active dictionary listed
\* exactly once in available_tables.
C3_ThreeFailuresExhaust ==
    (StartAttempt = 1 /\ exec_failures = 3) =>
        /\ Exhausted
        /\ Len(stdout) = 1
        /\ gen_calls = 3
        /\ Printed.attempt = 3
        /\ Printed.max_attempts_reached = TRUE
        /\ Printed.error = execution_result.error
        /\ Printed.sql = sql_query
        /\ \A pair \in Pairs(data_dictionary) :
               ListedOnce(Printed.available_tables, pair)

\* C4: whenever validate-then-execute reports success at attempt n, the
\* request has ended in SUCCEEDED at that attempt, the payload carrying
\* attempt n, the generated SQL, the data, columns and row_count of the
\* execution result, the updated history and the chart type.
C4_ExecutionSuccessIsTerminal ==
    (execution_result # NoResult /\ execution_result.success) =>
        /\ Succeeded
        /\ Len(stdout) = 1
        /\ Printed.attempt = current_attempt
        /\ Printed.attempt = last_call.attempt
        /\ Printed.sql = sql_query
        /\ Printed.data = execution_result.data
        /\ Printed.columns = execution_result.columns
        /\ Printed.row_count = Len(execution_result.data)
        /\ Printed.conversation_history = conversation_history
        /\ Printed.chart_type = chart_type

\* C5: a failure at attempt n < max_attempts is not returned to the caller:
\* the message becomes previous_error, the attempt becomes n + 1, and the
\* next generation call is made with attempt n + 1 and that message as its
\* previous_error.
C5_FailureFeedsNextAttempt ==
    (last_failure # NoFailure /\ last_failure.attempt < max_attempts) =>
        \/ /\ pc = "loop"
           /\ stdout = << >>
           /\ current_attempt = last_failure.attempt + 1
           /\ previous_error = last_failure.message
        \/ /\ gen_calls > 0
           /\ last_call.attempt = last_failure.attempt + 1
           /\ last_call.previous_error = last_failure.message

\* C6: when the budget is exhausted because generation raised on the last
\* attempt, the payload is the exhausted payload of execution failures:
\* success false, error, sql, explanation, attempt, max_attempts_reached,
\* available_tables, message and chart_type.
C6_GenerationExhaustedPayload ==
    (Done /\ last_failure # NoFailure /\ last_failure.handler = "except"
          /\ gen_calls > 0 /\ last_call.attempt = max_attempts
          /\ last_failure.attempt = max_attempts /\ db_ops = << >>) =>
        /\ Exhausted
        /\ Keys(Printed) = ExhaustedKeys
        /\ Printed.available_tables = get_tables_from_schema(data_dictionary)

\* C7: a malformed request (a missing or wrongly-shaped field) ends in FATAL
\* with a non-zero exit, and no pass of the retry loop is spent on it.
C7_MalformedRequestIsFatal ==
    Malformed(input_data) =>
        /\ last_failure = NoFailure
        /\ gen_calls = 0
        /\ pc = "done" => FatalEnd /\ exit_code = 1

\* C8: the exit status is non-zero if and only if the request ended in FATAL;
\* success, metadata-only success and exhausted retries exit with zero.
C8_NonZeroExitIffFatal ==
    /\ pc = "done" => (exit_code = 1 <=> FatalEnd)
    /\ (Succeeded \/ SucceededMetadata \/ Exhausted) => exit_code = 0
    /\ pc # "done" => exit_code = Running

\* C8 witness: a request that ended in FATAL, and so with exit status 1
C8_Witness == FatalEnd /\ exit_code = 1 /\ Malformed(input_data)

\* C9: every request eventually terminates and has then written exactly one
\* payload; no payload is written before, and never a second one.
C9_ExactlyOnePayload ==
    /\ <>[](pc = "done" /\ Len(stdout) = 1)
    /\ [](pc # "done" => stdout = << >>)

\* C9 witness: a request that ended with one payload after serializing its
\* result had failed inside an attempt
C9_Witness ==
    /\ pc = "done"
    /\ Len(stdout) = 1
    /\ execution_result # NoResult
    /\ execution_result.success
    /\ ~Serializable(execution_result.data)

\* C10: for every starting attempt number a, the first generation call is
\* made with attempt a, and the request ends in SUCCEEDED,
\* SUCCEEDED_METADATA, EXHAUSTED or FATAL.
C10_StartsAtGivenAttempt ==
    /\ gen_calls = 1 => last_call.attempt = StartAttempt
    /\ pc = "done" => Succeeded \/ SucceededMetadata \/ Exhausted \/ FatalEnd
    /\ (pc = "done" /\ ~Malformed(input_data)) => gen_calls >= 1

\* the selections of a table override, as a list of 'schema.table' texts
OverrideSpecs(t) == IF IsOverrideString(t) THEN << t.string >> ELSE t.list

\* the (schemaName, tableName) pair of entry e is one of the selections
InOverrideSet(e, specs) ==
    \E k \in 1..Len(specs) : specs[k] = e.schemaName \o << "." >> \o e.tableName

\* how often x occurs in seq
Count(seq, x) == Cardinality({i \in 1..Len(seq) : seq[i] = x})

\* the request carries a table override and was read without an error
OverrideApplied ==
    /\ pc # "start"
    /\ ~FatalEnd
    /\ OverrideTruthy(input_data.table_override)

\* C11: with a table override, the dictionary used for generation holds
\* exactly the entries of the input dictionary whose (schemaName, tableName)
\* pair is selected, each as often as the input holds it and no other entry,
\* and filter_data_dictionary_by_layer is not invoked, whatever the layer.
C11_OverrideSelectsExactly ==
    OverrideApplied =>
        /\ layer_filter_calls = 0
        /\ Range(data_dictionary) \subseteq Range(input_data.data_dictionary)
        /\ \A e \in Range(input_data.data_dictionary) :
               Count(data_dictionary, e) =
                   IF InOverrideSet(e, OverrideSpecs(input_data.table_override))
                   THEN Count(input_data.data_dictionary, e) ELSE 0

\* the layer filter applied to the dictionary and layer label of the request
FilterOnce ==
    filter_data_dictionary_by_layer(input_data.data_dictionary, input_data.layer)

\* the layer filter ran on the request and dropped an entry
FilterDropped ==
    /\ pc # "start"
    /\ layer_filter_calls = 1
    /\ Truthy(input_data.layer)
    /\ ~FatalEnd
    /\ data_dictionary = FilterOnce.value
    /\ Len(data_dictionary) < Len(input_data.data_dictionary)

\* C12: filter_data_dictionary_by_layer is idempotent: for every dictionary D
\* and non-empty layer label L on which it returns, filtering its result
\* again with L gives the same result.
C12_FilterIdempotent ==
    (Truthy(input_data.layer) /\ ~FilterOnce.raised) =>
        filter_data_dictionary_by_layer(FilterOnce.value, input_data.layer)
            = FilterOnce

\* C12 witness: the filter ran with a non-empty label on a dictionary with a
\* matching and a non-matching entry, and the matching one is what is left
C12_Witness ==
    FilterDropped /\ data_dictionary # << >>

\* the reference's match: the name ends, case-insensitively, with '_' + lowercase(layer)
RefEndsWithLayer(name, layer) ==
    LET n == Len(name)
        k == Len(layer)
    IN  /\ n >= k + 1
        /\ name[n - k] = "_"
        /\ \A j \in 1..k : LowerTok(name[n - k + j]) = LowerTok(layer[j])

RefMatches(e, layer) ==
    RefEndsWithLayer(e.schemaName, layer) \/ RefEndsWithLayer(e.tableName, layer)

RECURSIVE RefMatching(_, _)
\* the matching entries of a dictionary, in their original order
RefMatching(dict, layer) ==
    IF dict = << >> THEN << >>
    ELSE (IF RefMatches(Head(dict), layer) THEN << Head(dict) >> ELSE << >>)
         \o RefMatching(Tail(dict), layer)

\* the reference of the layer filter
LayerFilterReference(dict, layer) ==
    IF layer = << >> \/ dict = << >> \/ RefMatching(dict, layer) = << >>
    THEN dict
    ELSE RefMatching(dict, layer)

\* C20: filter_data_dictionary_by_layer, where it returns, equals the
\* reference: the input unchanged when the label is empty, the dictionary is
\* empty or no entry's schemaName or tableName ends with '_' + lowercase(layer);
\* otherwise exactly the matching entries in their original order.
C20_FilterEqualsReference ==
    /\ ~FilterOnce.raised =>
           FilterOnce.value = LayerFilterReference(input_data.data_dictionary,
                                                   input_data.layer)
    /\ (pc # "start" /\ ~FatalEnd /\ layer_filter_calls = 1) =>
           data_dictionary = LayerFilterReference(input_data.data_dictionary,
                                                  input_data.layer)

\* C20 witness: the filter ran, an entry whose name ends with the suffix in
\* another case was kept and an entry that does not match was dropped
C20_Witness ==
    /\ FilterDropped
    /\ \E i \in 1..Len(data_dictionary) :
           /\ data_dictionary[i].schemaName = << "a", "_", "G" >>
           /\ RefMatches(data_dictionary[i], input_data.layer)
    /\ \E i \in 1..Len(input_data.data_dictionary) :
           ~RefMatches(input_data.data_dictionary[i], input_data.layer)

\* the statement is a SELECT statement
IsSelectStatement(sql) ==
    LET s == Strip(sql) IN s # << >> /\ UpperTok(s[1]) = "SELECT"

\* the statement specifies a row limit: it has a LIMIT keyword of its own
HasExplicitLimit(sql) == \E i \in 1..Len(sql) : UpperTok(sql[i]) = "LIMIT"

\* a statement was handed to cursor.execute in this loop pass
StatementExecuted == pc # "execute" /\ last_executed # NoneVal

\* C13: a SELECT statement without an explicit row limit is executed by
\* execute_query (max_rows = 1000) with a cap of 1000 appended, whatever
\* identifiers or literals it contains; a statement that specifies a limit
\* is executed unmodified.
C13_LimitInjected ==
    StatementExecuted =>
        /\ (IsSelectStatement(sql_query) /\ ~HasExplicitLimit(sql_query)) =>
               /\ EndsWith(last_executed, << " ", "LIMIT", "1000" >>)
               /\ SubSeq(last_executed, 1, Len(last_executed) - 3)
                      = RStripSemicolon(sql_query)
        /\ HasExplicitLimit(sql_query) => last_executed = sql_query

RECURSIVE OpenAfter(_)
\* the number of connections that are open after the operations of a log
OpenAfter(log) ==
    IF log = << >> THEN 0
    ELSE LET op == log[Len(log)]
         IN  OpenAfter(SubSeq(log, 1, Len(log) - 1))
             + (IF op = "connect" THEN 1 ELSE IF op = "close" THEN -1 ELSE 0)

\* C14: on every exit path every connection that was opened is closed by the
\* time the request terminates, and at no point of the request is more than
\* one connection open.
C14_ConnectionsClosed ==
    /\ \A n \in 0..Len(connection_log) :
           OpenAfter(SubSeq(connection_log, 1, n)) \in {0, 1}
    /\ pc = "done" => OpenAfter(connection_log) = 0

\* C14 witness: a request that ended after an execution error was rolled
\* back in one attempt and json.dumps raised inside the with block in another
C14_Witness ==
    /\ pc = "done"
    /\ "rollback" \in Range(connection_log)
    /\ Count(connection_log, "close") >= 2
    /\ last_failure # NoFailure
    /\ last_failure.handler = "except"
    /\ execution_result # NoResult
    /\ execution_result.success

\* C15: within one request the connection is acquired once: at most one
\* connect is performed, and validation and execution of all attempts use
\* that connection before it is released at request exit.
C15_SingleConnection ==
    /\ Count(connection_log, "connect") + Count(connection_log, "connect failed") <= 1
    /\ pc # "done" => "close" \notin Range(connection_log)

\* a step in which main calls generate_sql
GenerationStep == gen_calls' = gen_calls + 1

\* the call of this step returned a parsed result
ParsedStep == parsed_calls' = parsed_calls + 1

\* the two turns the claim describes for the result of this step
ClaimedTurns ==
    << [role |-> "user", content |-> user_query],
       IF sql_query' # << >>
       THEN [role |-> "assistant", content |-> explanation', sql |-> sql_query']
       ELSE [role |-> "assistant", content |-> explanation'] >>

\* what C16 says of one generation step
HistoryStepAsClaimed ==
    /\ conversation_history' # conversation_history =>
           /\ ParsedStep
           /\ Truthy(explanation')
           /\ conversation_history' = conversation_history \o ClaimedTurns
    /\ (ParsedStep /\ ~Truthy(explanation')) =>
           conversation_history' = conversation_history

\* C16: generate_sql changes the conversation history only when the call
\* returns non-empty explanation text; it then appends one user turn followed
\* by one assistant turn, which has an sql field iff the returned SQL is
\* non-empty. A call returning an empty explanation leaves the history
\* unchanged.
C16_HistoryOnlyWithExplanation ==
    [][GenerationStep => HistoryStepAsClaimed]_vars

\* the history the caller supplied (line 66; an empty one is not restored)
CallerHistory ==
    IF input_data.conversation_history = Absent THEN << >>
    ELSE input_data.conversation_history

\* s is a prefix of t
IsPrefix(s, t) == Len(s) <= Len(t) /\ SubSeq(t, 1, Len(s)) = s

\* from position n on, the turns are pairs of a user turn and an assistant turn
PairsOfTurns(h, n) ==
    \A k \in 1..((Len(h) - n) \div 2) :
        /\ h[n + 2 * k - 1].role = "user"
        /\ h[n + 2 * k].role = "assistant"

\* the history echoed in a success payload
EchoedAsClaimed ==
    (Succeeded \/ SucceededMetadata) =>
        LET h == Printed.conversation_history
        IN  /\ IsPrefix(CallerHistory, h)
            /\ Len(h) = Len(CallerHistory) + 2 * parsed_calls
            /\ PairsOfTurns(h, Len(CallerHistory))
            /\ h = conversation_history

\* C17: the conversation history is append-only across a request: every
\* success payload (with data or metadata-only) echoes the caller's history
\* as an unchanged prefix followed by exactly two turns per generation call
\* that returned a parsed result, attempts whose execution failed included;
\* no step removes or reorders a turn.
C17_HistoryAppendOnly ==
    /\ []EchoedAsClaimed
    /\ [][IsPrefix(conversation_history, conversation_history')]_vars

\* C17 witness: a success payload after an attempt whose execution failed,
\* for a caller that supplied a history
C17_Witness ==
    /\ Succeeded
    /\ exec_failures >= 1
    /\ parsed_calls >= 2
    /\ CallerHistory # << >>
    /\ Len(Printed.conversation_history) = Len(CallerHistory) + 4

\* the fenced JSON response of the claim's example
ExampleResponse ==
    FencedJson([type |-> "object", sql |-> << "SELECT", " ", "1" >>,
                explanation |-> << "x" >>, chart_type |-> << "bar" >>])

\* the chart type the claim gives for an accepted response r
ClaimedChartType(r) ==
    IF r.body # NoResult /\ r.body.chart_type \in ChartTypes
    THEN r.body.chart_type
    ELSE << "table" >>

\* every chart type the program holds or prints with data is a recognized one
ChartTypeRecognized ==
    /\ chart_type # Unbound => chart_type \in ChartTypes
    /\ Succeeded => Printed.chart_type \in ChartTypes
    /\ parse_response(ExampleResponse) =
           [ok |-> TRUE, sql |-> << "SELECT", " ", "1" >>,
            explanation |-> << "x" >>, chart_type |-> << "bar" >>]

\* C18: for every oracle response that _parse_response accepts, on the JSON
\* path or the fallback path, the returned chart_type is one of pie, bar,
\* line, histogram, table, an absent, null or unrecognized value becoming
\* table; every success-with-data payload has its chart_type in that set, and
\* the fenced JSON example parses to ("SELECT 1", "x", "bar").
C18_ChartTypeNormalized ==
    /\ []ChartTypeRecognized
    /\ [][ParsedStep => chart_type' = ClaimedChartType(last_call'.response)]_vars

\* C18 witness: a success payload with data for a response whose chart type
\* was "donut", printed with chart type table
C18_Witness ==
    /\ Succeeded
    /\ last_call.response.body # NoResult
    /\ last_call.response.body.chart_type = << "donut" >>
    /\ Printed.chart_type = << "table" >>

\* text s occurs in text t at position i
OccursAt(s, t, i) == i >= 1 /\ i + Len(s) - 1 <= Len(t) /\ SubSeq(t, i, i + Len(s) - 1) = s

\* the request carries a chart-edit context
ChartEdit == input_data.chart_context # NoChartContext

\* q holds the chart's title, its chart type and its prior SQL verbatim, in
\* this order, followed by the original query
CarriesChartContext(q) ==
    LET ctx == input_data.chart_context
        P == 1..Len(q)
    IN  \E i \in P : \E j \in P : \E k \in P : \E m \in P :
            /\ OccursAt(ctx.title, q, i)
            /\ i + Len(ctx.title) <= j
            /\ OccursAt(ctx.chartType, q, j)
            /\ j + Len(ctx.chartType) <= k
            /\ OccursAt(ctx.sql, q, k)
            /\ k + Len(ctx.sql) <= m
            /\ OccursAt(input_data.user_query, q, m)

\* C19: with a chart-edit context the user query is rewritten before
\* filtering and generation; the user_query of every generation call, and of
\* the user turn appended for it, contains the chart's title, its chart type
\* and its prior SQL verbatim, followed by the original query.
C19_ChartEditQueryRewritten ==
    (ChartEdit /\ pc # "start" /\ ~FatalEnd) =>
        /\ CarriesChartContext(user_query)
        /\ gen_calls > 0 => last_call.user_query = user_query
        /\ \A n \in (Len(CallerHistory) + 1)..Len(conversation_history) :
               conversation_history[n].role = "user" =>
                   conversation_history[n].content = user_query

\* C19 witness: the second generation call of a chart-edit request, after the
\* first one was answered and its statement failed
C19_Witness ==
    /\ ChartEdit
    /\ gen_calls >= 2
    /\ parsed_calls >= 2
    /\ last_call.attempt = max_attempts
    /\ Len(conversation_history) >= 4
    /\ CarriesChartContext(last_call.user_query)

\* the execute_query call of this loop pass returned because validation failed
ValidationFailed ==
    /\ "validate" \in Range(db_ops)
    /\ "execute" \notin Range(db_ops)

\* the result carries the error tag of a failed validation
TaggedValidationFailed(result) ==
    /\ ~result.success
    /\ result.error # << >>
    /\ result.error[1] = "SQL validation failed: "

\* C21: with validate_first true a statement is executed only after
\* validate_sql succeeded for it in the same call; when validation fails the
\* call returns success false with an error tagged 'SQL validation failed' and
\* performs no execute, commit or rollback. Every execution of the
\* orchestrator goes this way: no statement is executed unvalidated.
C21_ValidatedBeforeExecuted ==
    /\ \A i \in 1..Len(connection_log) :
           connection_log[i] = "execute" =>
               i > 1 /\ connection_log[i - 1] = "validate"
    /\ ValidationFailed =>
           /\ TaggedValidationFailed(execution_result)
           /\ execution_result.data = << >>
           /\ Range(db_ops) \cap {"execute", "commit", "rollback"} = {}
           /\ last_executed = NoneVal
    /\ (db_ops # << >> /\ execution_result # NoResult
          /\ "close" \in Range(db_ops)
          /\ TaggedValidationFailed(execution_result)) => ValidationFailed

\* C21 witness: an attempt whose statement failed validation, after an
\* attempt whose statement was validated and then executed
C21_Witness ==
    /\ ValidationFailed
    /\ TaggedValidationFailed(execution_result)
    /\ db_ops = << "connect", "validate", "close" >>
    /\ "execute" \in Range(connection_log)

\* the statement was handed to cursor.execute in this loop pass
ExecutedInPass == "execute" \in Range(db_ops)

\* C22: execute_query commits exactly when the statement executed
\* successfully and produced no rows (a mutating statement), and row_count is
\* then the affected-row count; whenever execution raises, the transaction is
\* rolled back and not committed, and the result is success false with empty
\* data, empty columns and row_count 0.
C22_CommitOrRollback ==
    ExecutedInPass =>
        /\ "commit" \in Range(db_ops) <=>
               (execution_result.success /\ ~RowProducing(sql_query))
        /\ "commit" \in Range(db_ops) =>
               /\ execution_result.data = << >>
               /\ execution_result.columns = << >>
               /\ execution_result.row_count \in {0, 1}
        /\ "rollback" \in Range(db_ops) <=> ~execution_result.success
        /\ ~execution_result.success =>
               /\ "commit" \notin Range(db_ops)
               /\ execution_result.data = << >>
               /\ execution_result.columns = << >>
               /\ execution_result.row_count = 0

\* C22 witness: a mutating statement that affected one row was committed, in
\* a request that ended in success
C22_Witness ==
    /\ Succeeded
    /\ db_ops = << "connect", "validate", "execute", "commit", "close" >>
    /\ Printed.row_count = 1
    /\ Printed.data = << >>

\* C22 second case reached: an execution that raised was rolled back
C22_RolledBack ==
    /\ ExecutedInPass
    /\ db_ops = << "connect", "validate", "execute", "rollback", "close" >>
    /\ execution_result.row_count = 0

\* C23: every row-producing statement without an explicit row cap, whether
\* it begins with SELECT or with a WITH clause, is executed with a cap equal
\* to max_rows appended, so that a success payload with data for it has
\* row_count <= 1000.
C23_RowProducingCapped ==
    /\ (StatementExecuted /\ RowProducing(sql_query)
          /\ ~HasExplicitLimit(sql_query)) =>
           /\ EndsWith(last_executed, << " ", "LIMIT", "1000" >>)
           /\ SubSeq(last_executed, 1, Len(last_executed) - 3)
                  = RStripSemicolon(sql_query)
    /\ Succeeded => Printed.row_count <= max_rows

\* a step in which the generation call failed: generate_sql raised
FailedGenerationStep == GenerationStep /\ ~ParsedStep

\* the oracle call raised, or its text is no JSON and has no line with SELECT
\* or WITH
OracleFailure(r) ==
    \/ r.raises
    \/ /\ r.body = NoResult
       /\ \A i \in 1..Len(r.text) :
              KeywordsIn(UpperTok(r.text[i])) \cap {"SELECT", "WITH"} = {}

\* C24: a generation call that fails (the oracle call raises, or the
\* response is no JSON and has no line containing SELECT or WITH) leaves the
\* conversation history unchanged, consumes exactly one attempt, and is
\* retried by the loop of the orchestrator: the next call is made by main at
\* the next attempt, or the budget is exhausted.
C24_GenerationFailureRetried ==
    [][(FailedGenerationStep /\ OracleFailure(last_call'.response)) =>
          /\ conversation_history' = conversation_history
          /\ current_attempt' = current_attempt + 1
          /\ last_failure'.attempt = current_attempt
          /\ IF current_attempt < max_attempts
             THEN pc' = "loop" /\ stdout' = stdout
             ELSE pc' = "done" /\ Len(stdout') = 1]_vars

\* C24 witness: the third generation call of a request whose calls all
\* failed, the last one on an oracle error, made by main at the third attempt
\* with the history as the caller gave it
C24_Witness ==
    /\ gen_calls = 3
    /\ parsed_calls = 0
    /\ last_call.attempt = StartAttempt + 2
    /\ last_call.response.raises
    /\ conversation_history = CallerHistory
    /\ CallerHistory # << >>

\* the text of a line contains SELECT or WITH, whatever the case
RefTriggers(line) ==
    \E i \in 1..Len(line) : KeywordsIn(UpperTok(line[i])) \cap {"SELECT", "WITH"} # {}

\* the line ends in ';'
RefEndsStatement(line) ==
    LET l == Strip(line) IN l # << >> /\ l[Len(l)] = ";"

\* the lines of the claim: from the first line that contains SELECT or WITH to
\* the first line from there on that ends in ';', or to the end of the text
RefCapturedLines(lines) ==
    LET starts == {i \in 1..Len(lines) : RefTriggers(lines[i])}
    IN  IF starts = {} THEN << >>
        ELSE LET first == CHOOSE i \in starts : \A j \in starts : i <= j
                 stops == {j \in first..Len(lines) : RefEndsStatement(lines[j])}
                 last == IF stops = {} THEN Len(lines)
                         ELSE CHOOSE j \in stops : \A k \in stops : j <= k
             IN  SubSeq(lines, first, last)

\* the response of the claim's example: text that is no JSON with the line
\* 'SELECT * FROM t;'
ExampleText ==
    [raises |-> FALSE, body |-> NoResult,
     text |-> << "Sure:", "\n", "SELECT", " ", "*", " ", "FROM", " ", "t", ";",
                 "\n", "Done" >>]

\* the latest generation call was answered with text that is no JSON, and
\* the answer was parsed
FallbackParsed ==
    /\ gen_calls > 0
    /\ ~last_call.response.raises
    /\ last_call.response.body = NoResult
    /\ explanation = << "Extracted from response" >>

\* what C25 says of one parsed step on the fallback path
FallbackStepAsClaimed ==
    LET lines == Split(Strip(last_call'.response.text), "\n")
    IN  /\ sql_query' = Join(RefCapturedLines(lines), << "\n" >>)
        /\ explanation' = << "Extracted from response" >>
        /\ chart_type' = << "table" >>
        /\ sql_query' # << >>
        /\ Strip(sql_query') # << >>
        /\ pc' = "execute"

\* the example text parses to the statement line alone
ExampleTextParses ==
    parse_response(ExampleText) =
        [ok |-> TRUE, sql |-> << "SELECT", " ", "*", " ", "FROM", " ", "t", ";" >>,
         explanation |-> << "Extracted from response" >>,
         chart_type |-> << "table" >>]

\* C25: when the oracle text is not valid JSON, _parse_response returns as SQL
\* the lines from the first line that contains SELECT or WITH
\* (case-insensitively) up to and including the first captured line ending in
\* ';', or to the end of the text, with the fixed fallback explanation and
\* chart type table; the example text yields 'SELECT * FROM t;'. This SQL is
\* never empty, so a fallback parse is never a metadata-only result.
C25_FallbackCapture ==
    /\ []ExampleTextParses
    /\ [][(ParsedStep /\ last_call'.response.body = NoResult)
             => FallbackStepAsClaimed]_vars

\* C25 witness: a statement of two lines without a semicolon, captured from
\* its first line to the end of the text and handed on for execution
C25_Witness ==
    /\ FallbackParsed
    /\ sql_query = << "with", " ", "x", "\n", "select", " ", "a" >>
    /\ pc = "execute"

\* C26: for every generation call the retry prompt is used if and only if a
\* previous error exists for that attempt, supplied by the caller or recorded
\* from the preceding failed attempt, and the initial prompt otherwise, at
\* attempt 1 as at any later attempt.
C26_RetryPromptIffPreviousError ==
    [][(GenerationStep /\ last_call'.prompt # "none") =>
          (last_call'.prompt = "retry" <=> Truthy(previous_error))]_vars

\* C27: one request performs at most max_attempts = 3 generation calls and at
\* most 3 validate-then-execute calls, for every starting attempt number the
\* caller supplies and every sequence of oracle and database outcomes.
C27_CallsWithinBudget ==
    /\ gen_calls <= max_attempts
    /\ exec_calls <= max_attempts

\* C28: every payload that reports max_attempts_reached carries attempt =
\* max_attempts (3) and the error of the last failed attempt; every success
\* payload carries an attempt number between the starting attempt and 3, the
\* attempt whose generation call produced the result returned.
C28_PayloadAttempt ==
    /\ Exhausted =>
           /\ Printed.max_attempts_reached
           /\ Printed.attempt = max_attempts
           /\ last_failure # NoFailure
           /\ last_failure.attempt = max_attempts
           /\ Printed.error = last_failure.message
    /\ (Succeeded \/ SucceededMetadata) =>
           /\ StartAttempt <= Printed.attempt
           /\ Printed.attempt <= max_attempts
           /\ Printed.attempt = last_call.attempt
           /\ Printed.explanation = explanation

\* C28 witness: an exhausted payload of a request that started below attempt
\* 1 and whose last statement failed
C28_Witness ==
    /\ Exhausted
    /\ StartAttempt < 1
    /\ last_failure.handler = "else"
    /\ Printed.attempt = max_attempts

\* C28 second case reached: a success with data at the attempt after a failed one
C28_SuccessAfterRetry ==
    /\ Succeeded
    /\ Printed.attempt = StartAttempt + 1
    /\ exec_failures = 1

====
